---- MODULE Spec2Model ----
(***************************************************************************)
(* AoA-Project-1: two independent algorithm families.                      *)
(*                                                                         *)
(*   Divide&Conquer : max_subarray_dc / max_subarray / _kadane (module     *)
(*                    max_subarray_dc.py) and max_subarray_naive           *)
(*                    (naive_baseline.py)                                  *)
(*   Greedy         : plan_stops / plan_stops_sorted (module ev_greedy.py) *)
(*                    and min_stops_dp (naive_baseline.py)                 *)
(*                                                                         *)
(* The two naive_baseline.py files are translated line by line.  The       *)
(* modules max_subarray_dc.py and ev_greedy.py are not part of the source  *)
(* tree at hand; their operators follow sections 4.1, 4.2, 4.4 and 7 of    *)
(* the design document.                                                    *)
(*                                                                         *)
(* Every engine is a pure function, so each is an operator and one action  *)
(* per entry point applies it to the input chosen in the initial state.    *)
(* Numbers are integers: the inputs are the integer-valued floats, on      *)
(* which Python's float arithmetic is exact.  Indices are 0-based as in    *)
(* the source; At(s, i) reads Python's s[i].                               *)
(***************************************************************************)
EXTENDS Integers, Sequences, FiniteSets

VARIABLES
    values,      \* Divide&Conquer: the input list
    msCall,      \* which max-subarray entry point has returned ("none" before a call)
    msArgs,      \* the (lo, hi) the call was made with, <<>> when it takes none
    msResult,    \* the (start, end, sum) it returned
    dcInvoked,   \* whether the call entered the recursive routine max_subarray_dc
    positions,   \* Greedy: the station list handed to the entry point
    D,           \* destination distance
    R,           \* range on a full charge
    evCall,      \* which planner entry point has returned ("none" before a call)
    evArgs,      \* <<assume_sorted>> for plan_stops, <<>> otherwise
    evOutcome    \* what it returned or raised

msVars == <<values, msCall, msArgs, msResult, dcInvoked>>
evVars == <<positions, D, R, evCall, evArgs, evOutcome>>
vars == <<values, msCall, msArgs, msResult, dcInvoked,
          positions, D, R, evCall, evArgs, evOutcome>>

----------------------------------------------------------------------------
(* Bounds of the model *)

MaxLen == 4
MaxAbs == 2
MaxStations == 3
MaxD == 5
MaxR == 3

----------------------------------------------------------------------------
(* Helpers *)

At(s, i) == s[i + 1]

RECURSIVE SeqsUpTo(_, _)
SeqsUpTo(S, n) ==
    IF n = 0 THEN {<<>>}
    ELSE LET shorter == SeqsUpTo(S, n - 1)
         IN shorter \cup {Append(s, x) : s \in {t \in shorter : Len(t) = n - 1}, x \in S}

RECURSIVE Reverse(_)
Reverse(s) == IF s = <<>> THEN <<>> ELSE Append(Reverse(Tail(s)), Head(s))

----------------------------------------------------------------------------
(* Divide&Conquer/naive_baseline.py *)

EmptyResult == <<-1, -1, 0>>

\* float("-inf"): below every sum a list of the model can have
NegInf == -(MaxLen * MaxAbs) - 1

\* ">=" for ">": a later range with an equal sum replaces the retained one
RECURSIVE naive_inner_ge(_, _, _, _, _)
naive_inner_ge(vals, i, j, current_sum, best) ==
    IF j >= Len(vals) THEN best
    ELSE LET cs == current_sum + At(vals, j)
         IN naive_inner_ge(vals, i, j + 1, cs,
                           IF cs >= best[3] THEN <<i, j, cs>> ELSE best)

\* the inner loop "for j in range(i, n)" from index j on; best is
\* (best_start, best_end, max_sum)
RECURSIVE naive_inner(_, _, _, _, _)
naive_inner(vals, i, j, current_sum, best) ==
    IF j >= Len(vals) THEN best
    ELSE LET cs == current_sum + At(vals, j)
         IN naive_inner(vals, i, j + 1, cs,
                        IF cs > best[3] THEN <<i, j, cs>> ELSE best)

\* the outer loop "for i in range(n)" from index i on
RECURSIVE naive_outer(_, _, _)
naive_outer(vals, i, best) ==
    IF i >= Len(vals) THEN best
    ELSE naive_outer(vals, i + 1, naive_inner(vals, i, i, 0, best))

\* max_sum started at 0.0 instead of float("-inf")
max_subarray_naive_zero_init(vals) ==
    IF vals = <<>> THEN EmptyResult
    ELSE naive_outer(vals, 0, <<0, 0, 0>>)

\* the "if not values" guard left out
max_subarray_naive_no_guard(vals) == naive_outer(vals, 0, <<0, 0, NegInf>>)

max_subarray_naive(vals) ==
    IF vals = <<>> THEN EmptyResult
    ELSE naive_outer(vals, 0, <<0, 0, NegInf>>)

----------------------------------------------------------------------------
(* Divide&Conquer/max_subarray_dc.py, after sections 4.1 and 4.2 *)

\* scan from mid down to lo: (best sum of a run ending at mid, where it starts)
RECURSIVE left_scan(_, _, _, _, _)
left_scan(vals, lo, i, running, best) ==
    IF i < lo THEN best
    ELSE LET s == running + At(vals, i)
         IN left_scan(vals, lo, i - 1, s, IF s > best[1] THEN <<s, i>> ELSE best)

\* scan from mid+1 up to hi: (best sum of a run starting at mid+1, where it ends)
RECURSIVE right_scan(_, _, _, _, _)
right_scan(vals, hi, j, running, best) ==
    IF j > hi THEN best
    ELSE LET s == running + At(vals, j)
         IN right_scan(vals, hi, j + 1, s, IF s > best[1] THEN <<s, j>> ELSE best)

max_crossing(vals, lo, mid, hi) ==
    LET l == left_scan(vals, lo, mid, 0, <<NegInf, mid>>)
        r == right_scan(vals, hi, mid + 1, 0, <<NegInf, mid + 1>>)
    IN <<l[2], r[2], l[1] + r[1]>>

\* ties: left-only, then crossing, then right-only
combine(left, cross, right) ==
    IF left[3] >= right[3] /\ left[3] >= cross[3] THEN left
    ELSE IF cross[3] >= right[3] THEN cross
    ELSE right

RECURSIVE max_subarray_dc(_, _, _)
max_subarray_dc(vals, lo, hi) ==
    IF lo = hi THEN <<lo, lo, At(vals, lo)>>
    ELSE LET mid == (lo + hi) \div 2
         IN combine(max_subarray_dc(vals, lo, mid),
                    max_crossing(vals, lo, mid, hi),
                    max_subarray_dc(vals, mid + 1, hi))

\* the wrapper: the sentinel for an empty list, the whole range otherwise
max_subarray(vals) ==
    IF Len(vals) = 0 THEN EmptyResult
    ELSE max_subarray_dc(vals, 0, Len(vals) - 1)

\* whether the wrapper enters max_subarray_dc
max_subarray_recurses(vals) == Len(vals) # 0

\* the loop "for i in 1..n-1"; st is (current_sum, current_start, best)
RECURSIVE kadane_loop(_, _, _, _, _)
kadane_loop(vals, i, current_sum, current_start, best) ==
    IF i >= Len(vals) THEN best
    ELSE LET v == At(vals, i)
             extend == current_sum + v >= v
             cs == IF extend THEN current_sum + v ELSE v
             st == IF extend THEN current_start ELSE i
         IN kadane_loop(vals, i + 1, cs, st,
                        IF cs > best[3] THEN <<st, i, cs>> ELSE best)

_kadane(vals) ==
    IF Len(vals) = 0 THEN EmptyResult
    ELSE kadane_loop(vals, 1, At(vals, 0), 0, <<0, 0, At(vals, 0)>>)

----------------------------------------------------------------------------
(* Greedy/naive_baseline.py *)

NoOutcome == [kind |-> "none"]

\* what min_stops_dp hands back: the tuple (stop_count, stops), or ValueError
DpReturn(count, stops) ==
    [kind |-> "return", msg |-> "", count |-> count, stops |-> stops]
ValueError(msg) ==
    [kind |-> "ValueError", msg |-> msg, count |-> -1, stops |-> <<>>]

\* "pos < last" for "pos <= last": equal neighbours pass
RECURSIVE validate_loop_lt(_, _, _, _)
validate_loop_lt(pos, Dd, k, last) ==
    IF k >= Len(pos) THEN ""
    ELSE IF At(pos, k) <= 0 \/ At(pos, k) >= Dd
         THEN "station positions must lie strictly between 0 and D"
    ELSE IF At(pos, k) < last
         THEN "station positions must be strictly increasing"
    ELSE validate_loop_lt(pos, Dd, k + 1, At(pos, k))

\* the loop "for pos in positions" from index k on; the message raised, or
\* "" when the loop ends
RECURSIVE validate_loop(_, _, _, _)
validate_loop(pos, Dd, k, last) ==
    IF k >= Len(pos) THEN ""
    ELSE IF At(pos, k) <= 0 \/ At(pos, k) >= Dd
         THEN "station positions must lie strictly between 0 and D"
    ELSE IF At(pos, k) <= last
         THEN "station positions must be strictly increasing"
    ELSE validate_loop(pos, Dd, k + 1, At(pos, k))

\* the message _validate_inputs raises, "" when it returns
_validate_inputs(pos, Dd, Rr) ==
    IF Rr <= 0 THEN "range must be positive"
    ELSE IF Dd < 0 THEN "destination must be non-negative"
    ELSE validate_loop(pos, Dd, 0, 0)

\* "+= 1" also when j is the destination
RECURSIVE dp_inner_counts_destination(_, _, _, _, _, _)
dp_inner_counts_destination(augmented, Rr, stops_needed, j, i, best) ==
    IF i >= j THEN best
    ELSE IF At(augmented, j) - At(augmented, i) > Rr
         THEN dp_inner_counts_destination(augmented, Rr, stops_needed, j, i + 1, best)
    ELSE LET proposed == At(stops_needed, i) + 1
         IN dp_inner_counts_destination(augmented, Rr, stops_needed, j, i + 1,
                     IF proposed < best[1] THEN <<proposed, i>> ELSE best)

\* the comparison with best dropped: the last reachable predecessor wins
RECURSIVE dp_inner_last_wins(_, _, _, _, _, _)
dp_inner_last_wins(augmented, Rr, stops_needed, j, i, best) ==
    IF i >= j THEN best
    ELSE IF At(augmented, j) - At(augmented, i) > Rr
         THEN dp_inner_last_wins(augmented, Rr, stops_needed, j, i + 1, best)
    ELSE LET dest_idx == Len(augmented) - 1
             proposed == At(stops_needed, i) + (IF j # dest_idx THEN 1 ELSE 0)
         IN dp_inner_last_wins(augmented, Rr, stops_needed, j, i + 1,
                     IF proposed <= Len(augmented) THEN <<proposed, i>> ELSE best)

\* ">=" for ">": a hop of exactly R is skipped
RECURSIVE dp_inner_ge(_, _, _, _, _, _)
dp_inner_ge(augmented, Rr, stops_needed, j, i, best) ==
    IF i >= j THEN best
    ELSE IF At(augmented, j) - At(augmented, i) >= Rr
         THEN dp_inner_ge(augmented, Rr, stops_needed, j, i + 1, best)
    ELSE LET dest_idx == Len(augmented) - 1
             proposed == At(stops_needed, i) + (IF j # dest_idx THEN 1 ELSE 0)
         IN dp_inner_ge(augmented, Rr, stops_needed, j, i + 1,
                     IF proposed < best[1] THEN <<proposed, i>> ELSE best)

\* the loop "for i in range(j)" from index i on: (best, best_pred)
RECURSIVE dp_inner(_, _, _, _, _, _)
dp_inner(augmented, Rr, stops_needed, j, i, best) ==
    IF i >= j THEN best
    ELSE IF At(augmented, j) - At(augmented, i) > Rr
         THEN dp_inner(augmented, Rr, stops_needed, j, i + 1, best)
    ELSE LET dest_idx == Len(augmented) - 1
             proposed == At(stops_needed, i) + (IF j # dest_idx THEN 1 ELSE 0)
         IN dp_inner(augmented, Rr, stops_needed, j, i + 1,
                     IF proposed < best[1] THEN <<proposed, i>> ELSE best)

\* the loop "for j in range(1, n)" from index j on: (stops_needed, predecessor)
RECURSIVE dp_outer(_, _, _, _, _)
dp_outer(augmented, Rr, j, stops_needed, predecessor) ==
    IF j >= Len(augmented) THEN <<stops_needed, predecessor>>
    ELSE LET unreachable == Len(augmented) + 1
             b == dp_inner(augmented, Rr, stops_needed, j, 0, <<unreachable, -1>>)
         IN dp_outer(augmented, Rr, j + 1,
                     [stops_needed EXCEPT ![j + 1] = b[1]],
                     [predecessor EXCEPT ![j + 1] = b[2]])

\* the "if cursor != dest_idx" test left out: the destination is recorded too
RECURSIVE dp_backtrack_records_destination(_, _, _, _)
dp_backtrack_records_destination(augmented, predecessor, cursor, stops) ==
    IF cursor <= 0 THEN stops
    ELSE LET pred == At(predecessor, cursor)
         IN IF pred = -1 THEN stops
            ELSE dp_backtrack_records_destination(augmented, predecessor, pred,
                              Append(stops, At(augmented, cursor)))

\* the loop "while cursor > 0": stops, last visited first
RECURSIVE dp_backtrack(_, _, _, _)
dp_backtrack(augmented, predecessor, cursor, stops) ==
    IF cursor <= 0 THEN stops
    ELSE LET pred == At(predecessor, cursor)
             dest_idx == Len(augmented) - 1
         IN IF pred = -1 THEN stops
            ELSE dp_backtrack(augmented, predecessor, pred,
                              IF cursor # dest_idx
                              THEN Append(stops, At(augmented, cursor))
                              ELSE stops)

\* the loop "while cursor > 0": the cursor it ends with
RECURSIVE dp_backtrack_cursor(_, _)
dp_backtrack_cursor(predecessor, cursor) ==
    IF cursor <= 0 THEN cursor
    ELSE IF At(predecessor, cursor) = -1 THEN cursor
    ELSE dp_backtrack_cursor(predecessor, At(predecessor, cursor))

\* the cursor at the end of the backtracking of a call that gets that far
dp_final_cursor(sorted_positions, Dd, Rr) ==
    LET augmented == <<0>> \o sorted_positions \o <<Dd>>
        n == Len(augmented)
        filled == dp_outer(augmented, Rr, 1,
                           [k \in 1 .. n |-> IF k = 1 THEN 0 ELSE n + 1],
                           [k \in 1 .. n |-> -1])
    IN dp_backtrack_cursor(filled[2], n - 1)

min_stops_dp(sorted_positions, Dd, Rr) ==
    LET invalid == _validate_inputs(sorted_positions, Dd, Rr)
    IN IF invalid # "" THEN ValueError(invalid)
       ELSE IF Dd = 0 THEN DpReturn(0, <<>>)
       ELSE LET augmented == <<0>> \o sorted_positions \o <<Dd>>
                n == Len(augmented)
                dest_idx == n - 1
                unreachable == n + 1
                filled == dp_outer(augmented, Rr, 1,
                                   [k \in 1 .. n |-> IF k = 1 THEN 0 ELSE unreachable],
                                   [k \in 1 .. n |-> -1])
                stops_needed == filled[1]
                predecessor == filled[2]
            IN IF At(stops_needed, dest_idx) >= unreachable
               THEN ValueError("infeasible")
               ELSE DpReturn(At(stops_needed, dest_idx),
                             Reverse(dp_backtrack(augmented, predecessor, dest_idx, <<>>)))

----------------------------------------------------------------------------
(* Greedy/ev_greedy.py, after sections 4.4 and 7 *)

\* what the planner hands back: the list of stops, or one of the two failures
PlanReturn(stops) == [kind |-> "return", stops |-> stops]
InvalidInput == [kind |-> "InvalidInput", stops |-> <<>>]
Infeasible == [kind |-> "Infeasible", stops |-> <<>>]

\* section 7: R <= 0, D < 0, a station <= 0 or >= D, stations not strictly
\* increasing
planner_rejects(pos, Dd, Rr) ==
    \/ Rr <= 0
    \/ Dd < 0
    \/ \E k \in 1 .. Len(pos) : pos[k] <= 0 \/ pos[k] >= Dd
    \/ \E k \in 1 .. Len(pos) - 1 : pos[k + 1] <= pos[k]

\* "<" for "<=": a station exactly R away is out of reach
RECURSIVE advance_short(_, _, _, _)
advance_short(pos, Rr, current_position, cursor) ==
    IF cursor < Len(pos) /\ At(pos, cursor) - current_position < Rr
    THEN advance_short(pos, Rr, current_position, cursor + 1)
    ELSE cursor

\* reach taken one unit too far
RECURSIVE advance_overreach(_, _, _, _)
advance_overreach(pos, Rr, current_position, cursor) ==
    IF cursor < Len(pos) /\ At(pos, cursor) - current_position <= Rr + 1
    THEN advance_overreach(pos, Rr, current_position, cursor + 1)
    ELSE cursor

\* the cursor moved past every station within reach of current_position
RECURSIVE advance(_, _, _, _)
advance(pos, Rr, current_position, cursor) ==
    IF cursor < Len(pos) /\ At(pos, cursor) - current_position <= Rr
    THEN advance(pos, Rr, current_position, cursor + 1)
    ELSE cursor

\* step 5 of section 4.4
RECURSIVE greedy_loop(_, _, _, _, _, _)
greedy_loop(pos, Dd, Rr, current_position, cursor, plan) ==
    IF Dd - current_position <= Rr THEN PlanReturn(plan)
    ELSE LET next == advance(pos, Rr, current_position, cursor)
         IN IF next = cursor THEN Infeasible
            ELSE greedy_loop(pos, Dd, Rr, At(pos, next - 1), next,
                             Append(plan, At(pos, next - 1)))

plan_stops_sorted(sorted_positions, Dd, Rr) ==
    IF planner_rejects(sorted_positions, Dd, Rr) THEN InvalidInput
    ELSE IF Dd = 0 THEN PlanReturn(<<>>)
    ELSE greedy_loop(sorted_positions, Dd, Rr, 0, 0, <<>>)

\* sorted(): x placed before the first element greater than it
RECURSIVE insert_sorted(_, _)
insert_sorted(s, x) ==
    IF s = <<>> THEN <<x>>
    ELSE IF x < Head(s) THEN <<x>> \o s
    ELSE <<Head(s)>> \o insert_sorted(Tail(s), x)

\* the list handed on as it came
sorted_skipped(s) == s

RECURSIVE sorted(_)
sorted(s) ==
    IF s = <<>> THEN <<>>
    ELSE insert_sorted(sorted(SubSeq(s, 1, Len(s) - 1)), s[Len(s)])

plan_stops(pos, Dd, Rr, assume_sorted) ==
    IF assume_sorted THEN plan_stops_sorted(pos, Dd, Rr)
    ELSE plan_stops_sorted(sorted(pos), Dd, Rr)

----------------------------------------------------------------------------
(* Divide&Conquer: the calls *)

ValueRange == (-MaxAbs) .. MaxAbs
ValueLists == SeqsUpTo(ValueRange, MaxLen)

EvIdle ==
    /\ positions = <<>>
    /\ D = 0
    /\ R = 1
    /\ evCall = "none"
    /\ evArgs = <<>>
    /\ evOutcome = NoOutcome

InitMS ==
    /\ values \in ValueLists
    /\ msCall = "none"
    /\ msArgs = <<>>
    /\ msResult = <<>>
    /\ dcInvoked = FALSE
    /\ EvIdle

Returned(name, args, res, recursed) ==
    /\ msCall' = name
    /\ msArgs' = args
    /\ msResult' = res
    /\ dcInvoked' = recursed
    /\ UNCHANGED <<values, evVars>>

CallNaive == Returned("max_subarray_naive", <<>>, max_subarray_naive(values), FALSE)

CallKadane == Returned("_kadane", <<>>, _kadane(values), FALSE)

CallMaxSubarray ==
    Returned("max_subarray", <<>>, max_subarray(values), max_subarray_recurses(values))

CallDC ==
    \E lo \in 0 .. Len(values) - 1 :
        \E hi \in lo .. Len(values) - 1 :
            Returned("max_subarray_dc", <<lo, hi>>, max_subarray_dc(values, lo, hi), TRUE)

NextMS == CallNaive \/ CallKadane \/ CallMaxSubarray \/ CallDC

SpecMS == InitMS /\ [][NextMS]_vars

----------------------------------------------------------------------------
(* Greedy: the calls *)

PositionRange == 0 .. MaxD
StationLists == SeqsUpTo(PositionRange, MaxStations)

MsIdle ==
    /\ values = <<>>
    /\ msCall = "none"
    /\ msArgs = <<>>
    /\ msResult = <<>>
    /\ dcInvoked = FALSE

InitEV ==
    /\ positions \in StationLists
    /\ D \in -1 .. MaxD
    /\ R \in -1 .. MaxR
    /\ evCall = "none"
    /\ evArgs = <<>>
    /\ evOutcome = NoOutcome
    /\ MsIdle

Planned(name, args, outcome) ==
    /\ evCall' = name
    /\ evArgs' = args
    /\ evOutcome' = outcome
    /\ UNCHANGED <<positions, D, R, msVars>>

CallPlanStopsSorted ==
    Planned("plan_stops_sorted", <<>>, plan_stops_sorted(positions, D, R))

CallPlanStops ==
    \E assume_sorted \in BOOLEAN :
        Planned("plan_stops", <<assume_sorted>>, plan_stops(positions, D, R, assume_sorted))

CallMinStopsDp == Planned("min_stops_dp", <<>>, min_stops_dp(positions, D, R))

NextEV == CallPlanStopsSorted \/ CallPlanStops \/ CallMinStopsDp

SpecEV == InitEV /\ [][NextEV]_vars

----------------------------------------------------------------------------
(* Divide&Conquer: properties *)

Ranges(n) == {r \in (0 .. n - 1) \X (0 .. n - 1) : r[1] <= r[2]}

RECURSIVE RangeSum(_, _, _)
RangeSum(vals, i, j) == IF i > j THEN 0 ELSE At(vals, i) + RangeSum(vals, i + 1, j)

\* s is the total of some range and no range has a greater total
IsMaxSum(vals, s) ==
    /\ \E r \in Ranges(Len(vals)) : RangeSum(vals, r[1], r[2]) = s
    /\ \A r \in Ranges(Len(vals)) : RangeSum(vals, r[1], r[2]) <= s

MaximalRanges(vals) ==
    {r \in Ranges(Len(vals)) : IsMaxSum(vals, RangeSum(vals, r[1], r[2]))}

WholeRange == <<0, Len(values) - 1>>

\* a solver of the whole list has returned: the brute-force oracle, the linear
\* solver, or max_subarray_dc(values, 0, n-1)
WholeListSolved ==
    \/ msCall \in {"max_subarray_naive", "_kadane"}
    \/ msCall = "max_subarray_dc" /\ msArgs = WholeRange

\* C1: on a non-empty list the divide-and-conquer solver over (0, n-1), the
\* linear solver and the brute-force oracle each return the one sum that is
\* the total of some range [i, j] and is not exceeded by any range; hence
\* the three sums are equal.
C1_SameMaximalSum ==
    (values # <<>> /\ WholeListSolved) => IsMaxSum(values, msResult[3])

\* the divide-and-conquer solver answered with a range crossing the midpoint
\* of a list whose maximum is positive and whose elements are not all positive
C1_Witness ==
    /\ msCall = "max_subarray_dc"
    /\ Len(values) >= 4
    /\ msArgs = WholeRange
    /\ msResult[1] <= 1 /\ msResult[2] >= 2
    /\ msResult[3] > 0
    /\ \E k \in 1 .. Len(values) : values[k] < 0

\* C4: on a non-empty list every engine returns (start, end, sum) with
\* 0 <= start <= end < n and sum the total of values[start..end];
\* max_subarray_dc called on [lo, hi] reports lo <= start <= end <= hi.
C4_ResultWellFormed ==
    (values # <<>> /\ msCall # "none") =>
        /\ 0 <= msResult[1] /\ msResult[1] <= msResult[2] /\ msResult[2] < Len(values)
        /\ msResult[3] = RangeSum(values, msResult[1], msResult[2])
        /\ msCall = "max_subarray_dc" =>
               (msArgs[1] <= msResult[1] /\ msResult[2] <= msArgs[2])

\* max_subarray_dc has answered for a proper sub-range with a range of two
\* or more elements
C4_Witness ==
    /\ msCall = "max_subarray_dc"
    /\ msArgs[1] > 0 /\ msArgs[2] < Len(values) - 1
    /\ msResult[1] < msResult[2]

\* C8: on the empty list max_subarray, the linear solver and
\* max_subarray_naive return the sentinel (-1, -1, 0.0), and the wrapper
\* does not enter the recursive routine.
C8_EmptySentinel ==
    (values = <<>> /\ msCall # "none") =>
        /\ msResult = EmptyResult
        /\ ~dcInvoked

\* the wrapper has answered for the empty list
C8_Witness == values = <<>> /\ msCall = "max_subarray" /\ msResult = <<-1, -1, 0>>

\* C10 as stated: max_subarray_dc(values, 0, n-1) returns the start and end
\* index (and the sum) that max_subarray_naive(values) returns.
C10_SameIndicesAsNaive ==
    (values # <<>> /\ msCall = "max_subarray_dc" /\ msArgs = WholeRange) =>
        msResult = max_subarray_naive(values)

\* C10 amended: when exactly one range attains the maximum sum,
\* max_subarray_dc(values, 0, n-1) returns the start index, end index and
\* sum that max_subarray_naive(values) returns.
C10_SameIndicesWhenUnique ==
    (/\ values # <<>>
     /\ msCall = "max_subarray_dc"
     /\ msArgs = WholeRange
     /\ Cardinality(MaximalRanges(values)) = 1) =>
        msResult = max_subarray_naive(values)

\* max_subarray_dc has answered for a list of three or more elements with
\* a single maximal range, which is neither one element nor the whole list
C10_Witness ==
    /\ msCall = "max_subarray_dc"
    /\ msArgs = WholeRange
    /\ Len(values) >= 3
    /\ Cardinality(MaximalRanges(values)) = 1
    /\ msResult[1] < msResult[2]
    /\ msResult[2] - msResult[1] < Len(values) - 1

\* C14: among the ranges that attain the maximum sum, max_subarray_naive
\* returns the one with the smallest start index and, for that start, the
\* smallest end index: the first in its scan order, never a later equal one.
C14_NaiveFirstMaximal ==
    (values # <<>> /\ msCall = "max_subarray_naive") =>
        /\ <<msResult[1], msResult[2]>> \in MaximalRanges(values)
        /\ \A r \in MaximalRanges(values) :
               \/ msResult[1] < r[1]
               \/ msResult[1] = r[1] /\ msResult[2] <= r[2]

\* the oracle answered for a list with maximal ranges of a later start and
\* of the same start with a later end
C14_Witness ==
    /\ msCall = "max_subarray_naive"
    /\ Len(values) >= 3
    /\ \E r \in MaximalRanges(values) : r[1] > msResult[1]
    /\ \E r \in MaximalRanges(values) : r[1] = msResult[1] /\ r[2] > msResult[2]

----------------------------------------------------------------------------
(* Greedy: properties *)

Elements(s) == {s[k] : k \in 1 .. Len(s)}

StrictlyIncreasing(s) == \A k \in 1 .. Len(s) - 1 : s[k] < s[k + 1]

\* section 3: R > 0, D >= 0, stations strictly increasing, strictly inside (0, D)
ValidGeometry ==
    /\ R > 0
    /\ D >= 0
    /\ \A k \in 1 .. Len(positions) : 0 < positions[k] /\ positions[k] < D
    /\ StrictlyIncreasing(positions)

\* the waypoints origin, stops, destination lie at most R apart
HopsWithinRange(stops) ==
    LET way == <<0>> \o stops \o <<D>>
    IN \A k \in 1 .. Len(way) - 1 : way[k + 1] - way[k] <= R

IsStopPlan(stops) ==
    /\ StrictlyIncreasing(stops)
    /\ Elements(stops) \subseteq Elements(positions)
    /\ HopsWithinRange(stops)

\* the stations of the index set S, in trip order, counted from the smallest
RECURSIVE Chosen(_, _)
Chosen(S, k) ==
    IF k > Len(positions) THEN <<>>
    ELSE IF k \in S THEN <<positions[k]>> \o Chosen(S, k + 1)
    ELSE Chosen(S, k + 1)

\* the sizes of the station subsets that are feasible plans
FeasibleSizes ==
    {Cardinality(S) : S \in {T \in SUBSET (1 .. Len(positions)) : HopsWithinRange(Chosen(T, 1))}}

\* some neighbours of the augmented sequence (0, stations, D) lie more than R apart
GapExceedsRange ==
    LET way == <<0>> \o positions \o <<D>>
    IN \E k \in 1 .. Len(way) - 1 : way[k + 1] - way[k] > R

\* the failure an outcome stands for: "InvalidInput", "Infeasible", or
\* "return" when the call returned
Failure(outcome) ==
    IF outcome.kind = "ValueError"
    THEN (IF outcome.msg = "infeasible" THEN "Infeasible" ELSE "InvalidInput")
    ELSE outcome.kind

\* greedy outcome g and oracle outcome d agree
CountsAgree(g, d) ==
    \/ Failure(g) = "Infeasible" /\ Failure(d) = "Infeasible"
    \/ /\ Failure(g) = "return"
       /\ Failure(d) = "return"
       /\ Len(g.stops) = d.count

\* C2: on a valid geometry plan_stops_sorted and min_stops_dp either both
\* fail with Infeasible or both return, and the greedy plan is as long as the
\* stop count of min_stops_dp.
C2_GreedyMatchesDp ==
    ValidGeometry =>
        /\ evCall = "plan_stops_sorted" =>
               CountsAgree(evOutcome, min_stops_dp(positions, D, R))
        /\ evCall = "min_stops_dp" =>
               CountsAgree(plan_stops_sorted(positions, D, R), evOutcome)

\* the oracle returned two or more stops for a trip with a station it skips
C2_Witness ==
    /\ ValidGeometry
    /\ evCall = "min_stops_dp"
    /\ evOutcome.kind = "return"
    /\ evOutcome.count >= 2
    /\ evOutcome.count < Len(positions)

\* C3: on a valid geometry with a feasible plan, min_stops_dp returns the
\* least cardinality of a station subset all of whose hops are <= R.
C3_DpCountMinimal ==
    (ValidGeometry /\ FeasibleSizes # {} /\ evCall = "min_stops_dp") =>
        /\ evOutcome.kind = "return"
        /\ evOutcome.count \in FeasibleSizes
        /\ \A c \in FeasibleSizes : evOutcome.count <= c

\* the oracle returned fewer stops than some other feasible plan has
C3_Witness ==
    /\ ValidGeometry
    /\ evCall = "min_stops_dp"
    /\ evOutcome.kind = "return"
    /\ evOutcome.count >= 1
    /\ \E c \in FeasibleSizes : c > evOutcome.count

\* C5: a plan returned by plan_stops_sorted for a valid geometry is a
\* strictly increasing subsequence of the stations with every hop (origin to
\* first stop, stop to stop, last stop to D, or origin to D when empty) of
\* length <= R, and D is not among its stops.
C5_GreedyPlanValid ==
    (ValidGeometry /\ evCall = "plan_stops_sorted" /\ evOutcome.kind = "return") =>
        /\ IsStopPlan(evOutcome.stops)
        /\ D \notin Elements(evOutcome.stops)

\* the greedy planner returned a plan of two or more stops
C5_Witness ==
    /\ ValidGeometry
    /\ evCall = "plan_stops_sorted"
    /\ evOutcome.kind = "return"
    /\ Len(evOutcome.stops) >= 2
    /\ Len(evOutcome.stops) < Len(positions)

\* C6: plan_stops_sorted and min_stops_dp fail with InvalidInput whenever
\* R <= 0, D < 0, a station is <= 0 or >= D, or the stations are not strictly
\* increasing; also when D = 0, where a valid call returns at once.
C6_InvalidInputRejected ==
    (evCall \in {"plan_stops_sorted", "min_stops_dp"} /\ ~ValidGeometry) =>
        Failure(evOutcome) = "InvalidInput"

\* the oracle rejected D = 0 with a station, and rejected a duplicate station
\* on an otherwise passable trip
C6_Witness ==
    /\ evCall = "min_stops_dp"
    /\ Failure(evOutcome) = "InvalidInput"
    /\ \/ D = 0 /\ positions # <<>> /\ R > 0
       \/ /\ R > 0 /\ D > 0
          /\ \A k \in 1 .. Len(positions) : 0 < positions[k] /\ positions[k] < D
          /\ \E k \in 1 .. Len(positions) - 1 : positions[k] = positions[k + 1]
          /\ ~GapExceedsRange

\* C7: on a valid geometry plan_stops_sorted and min_stops_dp fail with
\* Infeasible exactly when two neighbours of (0, stations, D) lie more than R
\* apart; a gap of exactly R does not make them fail.
C7_InfeasibleIffGap ==
    (ValidGeometry /\ evCall \in {"plan_stops_sorted", "min_stops_dp"}) =>
        /\ Failure(evOutcome) \in {"Infeasible", "return"}
        /\ Failure(evOutcome) = "Infeasible" <=> GapExceedsRange

\* the stops the oracle returned include a hop of exactly R
C7_Witness ==
    /\ ValidGeometry
    /\ evCall = "min_stops_dp"
    /\ evOutcome.kind = "return"
    /\ evOutcome.count >= 1
    /\ LET way == <<0>> \o evOutcome.stops \o <<D>>
       IN \E k \in 1 .. Len(way) - 1 : way[k + 1] - way[k] = R

\* the one strictly increasing arrangement of the elements of s
Ascending(s) ==
    CHOOSE t \in [1 .. Len(s) -> Elements(s)] :
        StrictlyIncreasing(t) /\ Elements(t) = Elements(s)

DistinctInside(s) ==
    /\ Cardinality(Elements(s)) = Len(s)
    /\ \A k \in 1 .. Len(s) : 0 < s[k] /\ s[k] < D

\* C9: for distinct stations inside (0, D) in any order,
\* plan_stops(positions, D, R, assume_sorted=false) has the outcome of
\* plan_stops_sorted on the ascending arrangement of those stations.
C9_UnsortedMatchesSorted ==
    (evCall = "plan_stops" /\ evArgs = <<FALSE>> /\ DistinctInside(positions)) =>
        evOutcome = plan_stops_sorted(Ascending(positions), D, R)

\* plan_stops returned a plan with a stop for stations given out of order
C9_Witness ==
    /\ evCall = "plan_stops"
    /\ evArgs = <<FALSE>>
    /\ DistinctInside(positions)
    /\ ~StrictlyIncreasing(positions)
    /\ evOutcome.kind = "return"
    /\ Len(evOutcome.stops) >= 1

\* C11: on a valid geometry with D <= R (D = 0 and D = R included)
\* plan_stops_sorted returns the empty plan and min_stops_dp returns (0, []),
\* however many stations there are.
C11_DirectlyReachable ==
    (ValidGeometry /\ D <= R) =>
        /\ evCall = "plan_stops_sorted" => evOutcome = PlanReturn(<<>>)
        /\ evCall = "min_stops_dp" => evOutcome = DpReturn(0, <<>>)

\* the oracle returned no stop for a trip of length exactly R with two or
\* more stations on the way
C11_Witness ==
    /\ ValidGeometry
    /\ D = R
    /\ Len(positions) >= 2
    /\ evCall = "min_stops_dp"
    /\ evOutcome.kind = "return"
    /\ evOutcome.count = 0

\* the station subsets all of whose hops are <= R, as plans in trip order
FeasiblePlans ==
    {p \in {Chosen(T, 1) : T \in SUBSET (1 .. Len(positions))} : HopsWithinRange(p)}

\* C12: every stop of a plan returned by plan_stops_sorted is the farthest
\* station at most R beyond the previous charging point, and the plan stays
\* ahead: every feasible plan P has a k-th stop for each k up to the greedy
\* plan's length, and the k-th greedy stop lies at or beyond it.
C12_GreedyStaysAhead ==
    (ValidGeometry /\ evCall = "plan_stops_sorted" /\ evOutcome.kind = "return") =>
        \A k \in 1 .. Len(evOutcome.stops) :
            LET stop == evOutcome.stops[k]
                previous == IF k = 1 THEN 0 ELSE evOutcome.stops[k - 1]
            IN /\ stop \in Elements(positions)
               /\ stop - previous <= R
               /\ \A x \in Elements(positions) : x - previous <= R => x <= stop
               /\ \A P \in FeasiblePlans : Len(P) >= k /\ stop >= P[k]

\* the greedy planner returned two or more stops where another feasible plan
\* stops earlier at some leg and a further one has more stops
C12_Witness ==
    /\ ValidGeometry
    /\ evCall = "plan_stops_sorted"
    /\ evOutcome.kind = "return"
    /\ Len(evOutcome.stops) >= 2
    /\ \E P \in FeasiblePlans :
           \E k \in 1 .. Len(evOutcome.stops) :
               Len(P) >= k /\ P[k] < evOutcome.stops[k]
    /\ \E P \in FeasiblePlans : Len(P) > Len(evOutcome.stops)

\* C13: the list min_stops_dp returns is a strictly increasing subsequence
\* of the stations with every hop <= R, holds neither the origin nor the
\* destination, is as long as the returned count, and the backtracking that
\* built it ended at the origin.
C13_DpWitnessValid ==
    (evCall = "min_stops_dp" /\ evOutcome.kind = "return") =>
        /\ IsStopPlan(evOutcome.stops)
        /\ 0 \notin Elements(evOutcome.stops)
        /\ D \notin Elements(evOutcome.stops)
        /\ Len(evOutcome.stops) = evOutcome.count
        /\ D # 0 => dp_final_cursor(positions, D, R) = 0

\* the oracle returned two or more stops and passed a station by
C13_Witness ==
    /\ evCall = "min_stops_dp"
    /\ evOutcome.kind = "return"
    /\ Len(evOutcome.stops) >= 2
    /\ Elements(evOutcome.stops) # Elements(positions)
    /\ dp_final_cursor(positions, D, R) = 0

====
